---- MODULE Spec2Model ----
(* Model of the control-flow-graph construction engine of ctrl-flow          *)
(* (src/src/lib.rs): ControlFlowGraph, BasicBlock and execute.               *)
EXTENDS Integers, Sequences, FiniteSets, TLC

(* ------------------------------------------------------------------------ *)
(* Bounds                                                                    *)
(* ------------------------------------------------------------------------ *)
\* addresses (entry points, program counters, jump targets) are 0..MaxAddr
MaxAddr == 1
\* number of execute calls explored from new(entry)
MaxCalls == 2

Addr == 0..MaxAddr

(* ------------------------------------------------------------------------ *)
(* Types: JumpType, BlockType, CFGError, Option                              *)
(* ------------------------------------------------------------------------ *)
\* Option<T>: None is the empty sequence, Some(x) a one-element sequence
None == <<>>
Some(x) == <<x>>

JumpType == {"UnconditionalJump", "ConditionalTaken", "ConditionalNotTaken"}

Instruction(name, operand) ==
    [type |-> "Instruction", name |-> name, operand |-> operand]

Jump(name, success_address, jump_type, failure_address) ==
    [type |-> "Jump", name |-> name, success_address |-> success_address,
     jump_type |-> jump_type, failure_address |-> failure_address]

\* the instruction records fed to execute
PlainInstructions == {Instruction("INC", ""), Instruction("LDAC", "Op")}
\* a conditional jump comes with or without a failure address; the
\* unconditional arm never reads the field, so it is left absent there
JumpInstructions ==
    {Jump("JMP", s, "UnconditionalJump", None) : s \in Addr}
    \cup {Jump("JMP", s, t, f) : s \in Addr,
                                 t \in {"ConditionalTaken", "ConditionalNotTaken"},
                                 f \in {None} \cup {Some(a) : a \in Addr}}

CFGError == {"MissingBlock", "MissingCurrentBlock", "ExpectedFailureAddress"}

(* ------------------------------------------------------------------------ *)
(* BasicBlock                                                                *)
(* ------------------------------------------------------------------------ *)
\* HashMap::insert: the value at an existing key is replaced
HashMap_insert(m, k, v) ==
    [a \in (DOMAIN m) \cup {k} |-> IF a = k THEN v ELSE m[a]]

\* variant: end is set one past the start
BasicBlock_new_end_past_start(start) ==
    [start |-> start, end |-> start + 1, block |-> <<>>, edges |-> <<>>]

BasicBlock_new(start) ==
    [start |-> start, end |-> start, block |-> <<>>, edges |-> <<>>]

add_instruction(bb, address, instruction) ==
    [bb EXCEPT !.block = HashMap_insert(@, address, instruction),
               !.end = address]

\* variant: the target is stored as a one-based position
BasicBlock_add_edge_one_based(bb, edge) ==
    [bb EXCEPT !.edges = Append(@, edge + 1)]

BasicBlock_add_edge(bb, edge) ==
    [bb EXCEPT !.edges = Append(@, edge)]

(* ------------------------------------------------------------------------ *)
(* ControlFlowGraph: a graph value g is [current_block, blocks]; block       *)
(* indices are 0-based as in the Vec, so block i is g.blocks[i + 1].         *)
(* ------------------------------------------------------------------------ *)
Indices(g) == 0..(Len(g.blocks) - 1)

Block(g, i) == g.blocks[i + 1]

ControlFlowGraph_new(entry_point) ==
    [current_block |-> 0, blocks |-> <<BasicBlock_new(entry_point)>>]

\* Result<(), CFGError> together with the graph the call leaves behind
Ret(g, result) == [g |-> g, result |-> result]

\* variant: the destination check rejects the last block of the collection
add_edge_rejects_last(g, src_block, dest_block) ==
    IF dest_block + 1 \notin Indices(g) THEN Ret(g, "MissingBlock")
    ELSE IF src_block \in Indices(g)
         THEN Ret([g EXCEPT !.blocks[src_block + 1] =
                                BasicBlock_add_edge(@, dest_block)], "Ok")
         ELSE Ret(g, "MissingBlock")

add_edge(g, src_block, dest_block) ==
    IF dest_block \notin Indices(g) THEN Ret(g, "MissingBlock")
    ELSE IF src_block \in Indices(g)
         THEN Ret([g EXCEPT !.blocks[src_block + 1] =
                                BasicBlock_add_edge(@, dest_block)], "Ok")
         ELSE Ret(g, "MissingBlock")

\* variant: the position returned is taken as blocks.len()
add_block_off_by_one(g, block) ==
    LET pushed == [g EXCEPT !.blocks = Append(@, block)]
    IN  [g |-> pushed, index |-> Len(pushed.blocks)]

\* variant: the block is inserted at the front of the collection
add_block_at_front(g, block) ==
    LET pushed == [g EXCEPT !.blocks = <<block>> \o @]
    IN  [g |-> pushed, index |-> 0]

add_block(g, block) ==
    LET pushed == [g EXCEPT !.blocks = Append(@, block)]
    IN  [g |-> pushed, index |-> Len(pushed.blocks) - 1]

\* variant: the scan never reports a match
query_blocks_never_finds(g, address) ==
    LET hits == {i \in Indices(g) : FALSE}
    IN  IF hits = {} THEN None
        ELSE Some(CHOOSE i \in hits : \A j \in hits : i <= j)

\* variant: the scan stops one block short of the end
query_blocks_short_scan(g, address) ==
    LET hits == {i \in Indices(g) : i < Len(g.blocks) - 1 /\ Block(g, i).start = address}
    IN  IF hits = {} THEN None
        ELSE Some(CHOOSE i \in hits : \A j \in hits : i <= j)

query_blocks(g, address) ==
    LET hits == {i \in Indices(g) : Block(g, i).start = address}
    IN  IF hits = {} THEN None
        ELSE Some(CHOOSE i \in hits : \A j \in hits : i <= j)

(* ------------------------------------------------------------------------ *)
(* execute                                                                   *)
(* ------------------------------------------------------------------------ *)
\* variant: the instruction is added whatever its address
RecordInCurrent_unguarded(g, program_counter, instruction) ==
    [g EXCEPT !.blocks[g.current_block + 1] =
                  add_instruction(@, program_counter, instruction)]

\* the range guard in front of add_instruction, on the current block
\* variant: the guard only tests the upper end of the range
RecordInCurrent_no_lower_bound(g, program_counter, instruction) ==
    LET curr_block == Block(g, g.current_block)
    IN  IF program_counter <= curr_block.end
        THEN [g EXCEPT !.blocks[g.current_block + 1] =
                           add_instruction(@, program_counter, instruction)]
        ELSE g

RecordInCurrent(g, program_counter, instruction) ==
    LET curr_block == Block(g, g.current_block)
    IN  IF program_counter >= curr_block.start /\ program_counter <= curr_block.end
        THEN [g EXCEPT !.blocks[g.current_block + 1] =
                           add_instruction(@, program_counter, instruction)]
        ELSE g

\* variant: the instruction goes to the entry block, which becomes current
ExecInstruction_entry_block(g, program_counter, instruction) ==
    IF g.current_block \notin Indices(g) THEN Ret(g, "MissingCurrentBlock")
    ELSE Ret(RecordInCurrent([g EXCEPT !.current_block = 0],
                             program_counter, instruction), "Ok")

\* BlockType::Instruction arm
ExecInstruction(g, program_counter, instruction) ==
    IF g.current_block \notin Indices(g) THEN Ret(g, "MissingCurrentBlock")
    ELSE Ret(RecordInCurrent(g, program_counter, instruction), "Ok")

\* variant: the edge is added from the resolved block back to the current one
LinkTo_reversed(g, address) ==
    LET q == query_blocks(g, address)
    IN  IF q # None
        THEN LET r == add_edge(g, q[1], g.current_block)
             IN  [g |-> r.g, result |-> r.result, index |-> q[1]]
        ELSE LET a == add_block(g, BasicBlock_new(address))
                 r == add_edge(a.g, a.index, a.g.current_block)
             IN  [g |-> r.g, result |-> r.result, index |-> a.index]

\* "does the block already exist?  add the edge : create it, add the edge";
\* the edge starts at the block that is current; index is the block resolved
LinkTo(g, address) ==
    LET q == query_blocks(g, address)
    IN  IF q # None
        THEN LET r == add_edge(g, g.current_block, q[1])
             IN  [g |-> r.g, result |-> r.result, index |-> q[1]]
        ELSE LET a == add_block(g, BasicBlock_new(address))
                 r == add_edge(a.g, a.g.current_block, a.index)
             IN  [g |-> r.g, result |-> r.result, index |-> a.index]

\* the same, followed by self.current_block = index when add_edge succeeded
LinkToAndEnter(g, address) ==
    LET l == LinkTo(g, address)
    IN  IF l.result # "Ok" THEN Ret(l.g, l.result)
        ELSE Ret([l.g EXCEPT !.current_block = l.index], "Ok")

\* JumpType::UnconditionalJump arm: no edge is added when the block is new
ExecUnconditionalJump(g, success_address) ==
    LET q == query_blocks(g, success_address)
    IN  IF q # None
        THEN LET r == add_edge(g, g.current_block, q[1])
             IN  IF r.result # "Ok" THEN r
                 ELSE Ret([r.g EXCEPT !.current_block = q[1]], "Ok")
        ELSE LET a == add_block(g, BasicBlock_new(success_address))
             IN  Ret([a.g EXCEPT !.current_block = a.index], "Ok")

\* variant: the success block is resolved before the failure address is checked
ExecConditionalTaken_late_check(g, success_address, failure_address) ==
    LET s == LinkTo(g, success_address)
    IN  IF s.result # "Ok" THEN Ret(s.g, s.result)
        ELSE IF failure_address = None
             THEN Ret(s.g, "ExpectedFailureAddress")
             ELSE LET f == LinkTo(s.g, failure_address[1])
                  IN  IF f.result # "Ok" THEN Ret(f.g, f.result)
                      ELSE Ret([f.g EXCEPT !.current_block = s.index], "Ok")

\* JumpType::ConditionalTaken arm
ExecConditionalTaken(g, success_address, failure_address) ==
    IF failure_address = None THEN Ret(g, "ExpectedFailureAddress")
    ELSE LET f == LinkTo(g, failure_address[1])
         IN  IF f.result # "Ok" THEN Ret(f.g, f.result)
             ELSE LinkToAndEnter(f.g, success_address)

\* variant: the cursor moves to the success block, as in the taken arm
ExecConditionalNotTaken_enters_success(g, success_address, failure_address) ==
    IF failure_address = None THEN Ret(g, "ExpectedFailureAddress")
    ELSE LET f == LinkTo(g, failure_address[1])
         IN  IF f.result # "Ok" THEN Ret(f.g, f.result)
             ELSE LinkToAndEnter(f.g, success_address)

\* JumpType::ConditionalNotTaken arm
ExecConditionalNotTaken(g, success_address, failure_address) ==
    IF failure_address = None THEN Ret(g, "ExpectedFailureAddress")
    ELSE LET s == LinkTo(g, success_address)
         IN  IF s.result # "Ok" THEN Ret(s.g, s.result)
             ELSE LinkToAndEnter(s.g, failure_address[1])

\* BlockType::Jump arm
ExecJump(g, program_counter, instruction) ==
    IF g.current_block \notin Indices(g) THEN Ret(g, "MissingCurrentBlock")
    ELSE LET g1 == RecordInCurrent(g, program_counter, instruction)
         IN  CASE instruction.jump_type = "UnconditionalJump" ->
                    ExecUnconditionalJump(g1, instruction.success_address)
               [] instruction.jump_type = "ConditionalTaken" ->
                    ExecConditionalTaken(g1, instruction.success_address,
                                         instruction.failure_address)
               [] instruction.jump_type = "ConditionalNotTaken" ->
                    ExecConditionalNotTaken(g1, instruction.success_address,
                                            instruction.failure_address)

execute(g, program_counter, instruction) ==
    IF instruction.type = "Instruction"
    THEN ExecInstruction(g, program_counter, instruction)
    ELSE ExecJump(g, program_counter, instruction)

(* ------------------------------------------------------------------------ *)
(* State machine: new(entry) followed by execute calls                       *)
(* ------------------------------------------------------------------------ *)
VARIABLES
    current_block,  \* ControlFlowGraph.current_block
    blocks,         \* ControlFlowGraph.blocks
    call,           \* the arguments of the last execute call
    result,         \* what the last execute call returned
    calls,          \* number of execute calls made so far
    executed,       \* the (program_counter, instruction) pairs of earlier calls
    entry           \* the entry point the graph was created with

vars == <<current_block, blocks, call, result, calls, executed, entry>>

Graph == [current_block |-> current_block, blocks |-> blocks]

NoCall == [program_counter |-> 0, instruction |-> [type |-> "None"]]

Init ==
    \E entry_point \in Addr :
        /\ current_block = ControlFlowGraph_new(entry_point).current_block
        /\ blocks = ControlFlowGraph_new(entry_point).blocks
        /\ call = NoCall
        /\ result = "New"
        /\ calls = 0
        /\ executed = {}
        /\ entry = entry_point

ThisCall(program_counter, instruction) ==
    [program_counter |-> program_counter, instruction |-> instruction]

\* one execute call on the graph
Step(program_counter, instruction) ==
    /\ calls < MaxCalls
    /\ LET r == execute(Graph, program_counter, instruction)
       IN  /\ current_block' = r.g.current_block
           /\ blocks' = r.g.blocks
           /\ result' = r.result
    /\ call' = ThisCall(program_counter, instruction)
    /\ calls' = calls + 1
    /\ UNCHANGED entry

ExecutePlain ==
    \E program_counter \in Addr, instruction \in PlainInstructions :
        Step(program_counter, instruction) /\ UNCHANGED executed

ExecuteJump ==
    \E program_counter \in Addr, instruction \in JumpInstructions :
        Step(program_counter, instruction) /\ UNCHANGED executed

Next == ExecutePlain \/ ExecuteJump

Spec == Init /\ [][Next]_vars

\* the same calls, remembering every (program_counter, instruction) pair fed in
ReplayPlain ==
    \E program_counter \in Addr, instruction \in PlainInstructions :
        /\ Step(program_counter, instruction)
        /\ executed' = executed \cup {ThisCall(program_counter, instruction)}

ReplayJump ==
    \E program_counter \in Addr, instruction \in JumpInstructions :
        /\ Step(program_counter, instruction)
        /\ executed' = executed \cup {ThisCall(program_counter, instruction)}

NextReplay == ReplayPlain \/ ReplayJump

SpecReplay == Init /\ [][NextReplay]_vars

TypeOK ==
    /\ current_block \in Nat
    /\ Len(blocks) \in 1..(MaxAddr + 1)
    /\ result \in {"New", "Ok"} \cup CFGError
    /\ calls \in 0..MaxCalls

(* ------------------------------------------------------------------------ *)
(* Vocabulary of the properties.  In an action formula the unprimed graph is *)
(* the graph before the execute call and the primed graph the one after it;  *)
(* call' and result' are the call's arguments and its return value.          *)
(* ------------------------------------------------------------------------ *)
\* how many entries of an edge list point at block t
EdgeCount(edges, t) == Cardinality({k \in DOMAIN edges : edges[k] = t})

IsJump(c) == c.instruction.type = "Jump"
IsPlain(c) == c.instruction.type = "Instruction"
IsKind(c, kind) == IsJump(c) /\ c.instruction.jump_type = kind
IsConditional(c) == IsKind(c, "ConditionalTaken") \/ IsKind(c, "ConditionalNotTaken")

\* the address control reaches after the jump of call c
Reached(c) ==
    IF c.instruction.jump_type = "ConditionalNotTaken"
    THEN c.instruction.failure_address[1]
    ELSE c.instruction.success_address

\* C1: the block sequence is never empty and current_block indexes one of
\* its blocks, after any sequence of successful or failing execute calls.
C1_CursorValid ==
    /\ Len(blocks) >= 1
    /\ current_block \in 0..(Len(blocks) - 1)

\* reached: a jump has just created a block and the cursor sits on it, the
\* last index of the sequence
C1_Witness ==
    /\ IsJump(call) /\ result = "Ok"
    /\ Len(blocks) >= 2
    /\ current_block = Len(blocks) - 1

\* C2: no two blocks have the same start address.
C2_StartsUnique ==
    \A i, j \in 1..Len(blocks) : i # j => blocks[i].start # blocks[j].start

\* reached: a conditional jump whose success and failure addresses are equal
\* and name a block that did not exist has been executed
C2_Witness ==
    /\ IsConditional(call) /\ result = "Ok"
    /\ call.instruction.failure_address = Some(call.instruction.success_address)
    /\ calls = 1
    /\ Len(blocks) = 2
    /\ blocks[2].start = call.instruction.success_address

\* C3: a successful Unconditional jump to s leaves the block that was current
\* before the call with one more recorded traversal of the edge to the block
\* starting at s than before, whether that block existed or is created.
C3_UnconditionalEdgeRecorded ==
    [][ (IsKind(call', "UnconditionalJump") /\ result' = "Ok") =>
          \E t \in 0..(Len(blocks') - 1) :
             /\ blocks'[t + 1].start = call'.instruction.success_address
             /\ EdgeCount(blocks'[current_block + 1].edges, t) =
                   EdgeCount(blocks[current_block + 1].edges, t) + 1 ]_vars

\* C4: a successful conditional jump with s # f leaves the block that was
\* current with entries to both target blocks; the branch followed is counted
\* once more than before and the other branch is counted as before.
C4_ConditionalEdgesCounted ==
    [][ ( /\ IsConditional(call') /\ result' = "Ok"
          /\ call'.instruction.failure_address # Some(call'.instruction.success_address) ) =>
          \E s, f \in 0..(Len(blocks') - 1) :
             LET followed == IF IsKind(call', "ConditionalTaken") THEN s ELSE f
                 other == IF IsKind(call', "ConditionalTaken") THEN f ELSE s
                 before == blocks[current_block + 1].edges
                 after == blocks'[current_block + 1].edges
             IN  /\ blocks'[s + 1].start = call'.instruction.success_address
                 /\ blocks'[f + 1].start = call'.instruction.failure_address[1]
                 /\ EdgeCount(after, followed) = EdgeCount(before, followed) + 1
                 /\ EdgeCount(after, other) = EdgeCount(before, other)
                 /\ \E k \in DOMAIN after : after[k] = other ]_vars

\* C5: after a Jump that returns Ok the cursor is on the block whose start is
\* the address control reached: success_address for Unconditional and
\* ConditionalTaken, failure_address for ConditionalNotTaken.
C5_CursorFollowsControlFlow ==
    [][ (IsJump(call') /\ result' = "Ok") =>
          blocks'[current_block' + 1].start = Reached(call') ]_vars

\* reached: a not-taken conditional jump with distinct addresses has moved
\* the cursor to the block at its failure address
C5_Witness ==
    /\ IsKind(call, "ConditionalNotTaken") /\ result = "Ok"
    /\ call.instruction.failure_address # Some(call.instruction.success_address)
    /\ blocks[current_block + 1].start = call.instruction.failure_address[1]
    /\ Len(blocks[1].edges) > 0

\* C6: each block's edge entries are unique by target block index.
C6_EdgesUniqueByTarget ==
    \A i \in 1..Len(blocks) :
        \A k, l \in DOMAIN blocks[i].edges :
            k # l => blocks[i].edges[k] # blocks[i].edges[l]

\* C7: a conditional jump without a failure address returns
\* ExpectedFailureAddress; block count, cursor and all edges stay as they
\* were, and the only change allowed is the jump instruction recorded at
\* program_counter in the current block.
C7_MissingFailureAddress ==
    [][ (IsConditional(call') /\ call'.instruction.failure_address = None) =>
          /\ result' = "ExpectedFailureAddress"
          /\ Len(blocks') = Len(blocks)
          /\ current_block' = current_block
          /\ \A i \in 1..Len(blocks) :
                /\ blocks'[i].edges = blocks[i].edges
                /\ blocks'[i].start = blocks[i].start
                /\ blocks'[i].end = blocks[i].end
                /\ i # current_block + 1 => blocks'[i].block = blocks[i].block
          /\ blocks'[current_block + 1].block \in
                {blocks[current_block + 1].block,
                 HashMap_insert(blocks[current_block + 1].block,
                                call'.program_counter, call'.instruction)} ]_vars

\* reached: a taken conditional jump without failure address has failed and
\* the jump itself is in the current block's table, in a graph of two blocks
C7_Witness ==
    /\ IsKind(call, "ConditionalTaken")
    /\ call.instruction.failure_address = None
    /\ result = "ExpectedFailureAddress"
    /\ Len(blocks) >= 2
    /\ call.program_counter \in DOMAIN blocks[current_block + 1].block
    /\ blocks[current_block + 1].block[call.program_counter] = call.instruction

\* instructions held by each block and recorded traversals of each edge
InstructionCount(bb) == Cardinality(DOMAIN bb.block)

\* C8 (as stated): re-invoking execute with a (program_counter, instruction)
\* pair that was executed before changes neither the block count, nor any
\* block's instruction count or end, nor any edge's traversal count.
C8_ReplayChangesNothing ==
    [][ call' \in executed =>
          /\ Len(blocks') = Len(blocks)
          /\ \A i \in 1..Len(blocks) :
                /\ InstructionCount(blocks'[i]) = InstructionCount(blocks[i])
                /\ blocks'[i].end = blocks[i].end
                /\ \A t \in 0..(Len(blocks) - 1) :
                      EdgeCount(blocks'[i].edges, t) = EdgeCount(blocks[i].edges, t) ]_vars

\* C8 (amended): re-invoking execute with a pair that was executed before
\* changes neither the block count nor any block's end; a Plain instruction
\* changes no edge, and no instruction count changes when the address is
\* already recorded in the current block.
C8_ReplayKeepsBlocksAndEnds ==
    [][ call' \in executed =>
          /\ Len(blocks') = Len(blocks)
          /\ \A i \in 1..Len(blocks) : blocks'[i].end = blocks[i].end
          /\ IsPlain(call') =>
                \A i \in 1..Len(blocks) : blocks'[i].edges = blocks[i].edges
          /\ call'.program_counter \in DOMAIN blocks[current_block + 1].block =>
                \A i \in 1..Len(blocks) :
                   InstructionCount(blocks'[i]) = InstructionCount(blocks[i]) ]_vars

\* reached: the same successful jump has been fed in twice, the second time
\* from the block it created
C8_Witness ==
    /\ calls = 2 /\ Cardinality(executed) = 1
    /\ IsJump(call) /\ result = "Ok"
    /\ Len(blocks) = 2
    /\ current_block = 1
    /\ Len(blocks[2].edges) > 0

\* C9: a Plain instruction at a program_counter that is at least the current
\* block's start and not yet in the current block is recorded there and the
\* block's end becomes program_counter, inside the [start, end] range or not.
C9_PlainRecordedRegardlessOfRange ==
    [][ ( /\ IsPlain(call')
          /\ call'.program_counter >= blocks[current_block + 1].start
          /\ call'.program_counter \notin DOMAIN blocks[current_block + 1].block ) =>
          /\ result' = "Ok"
          /\ call'.program_counter \in DOMAIN blocks'[current_block + 1].block
          /\ blocks'[current_block + 1].block[call'.program_counter] = call'.instruction
          /\ blocks'[current_block + 1].end = call'.program_counter ]_vars

\* C10: execute of a Plain instruction leaves current_block, the number of
\* blocks, every block's start and edges, and the instruction tables of all
\* blocks other than the current one unchanged.
C10_PlainFrame ==
    [][ IsPlain(call') =>
          /\ current_block' = current_block
          /\ Len(blocks') = Len(blocks)
          /\ \A i \in 1..Len(blocks) :
                /\ blocks'[i].start = blocks[i].start
                /\ blocks'[i].edges = blocks[i].edges
                /\ i # current_block + 1 => blocks'[i].block = blocks[i].block ]_vars

\* reached: a Plain instruction has been recorded in a current block other
\* than the entry block, in a graph that has edges
C10_Witness ==
    /\ IsPlain(call) /\ result = "Ok"
    /\ current_block > 0
    /\ call.program_counter \in DOMAIN blocks[current_block + 1].block
    /\ blocks[current_block + 1].block[call.program_counter] = call.instruction
    /\ Len(blocks[1].edges) > 0

\* C11: recording an instruction at an address already present in the block
\* is a no-op: the stored instruction is kept even when a different one is
\* supplied, the number of stored instructions and the block's end stay.
C11_PresentAddressNotOverwritten ==
    [][ call'.program_counter \in DOMAIN blocks[current_block + 1].block =>
          /\ blocks'[current_block + 1].block = blocks[current_block + 1].block
          /\ InstructionCount(blocks'[current_block + 1]) =
                InstructionCount(blocks[current_block + 1])
          /\ blocks'[current_block + 1].end = blocks[current_block + 1].end ]_vars

\* C12: an execute call whose program_counter is lower than the current
\* block's start does not return Ok.
C12_RewindRejected ==
    [][ call'.program_counter < blocks[current_block + 1].start =>
          result' # "Ok" ]_vars

\* C13: across every execute call the block sequence changes only by
\* appending: each block that existed keeps its index and its start address,
\* and none is removed or renumbered.
C13_BlocksAppendOnly ==
    [][ /\ Len(blocks') >= Len(blocks)
        /\ \A i \in 1..Len(blocks) : blocks'[i].start = blocks[i].start ]_vars

\* reached: a second execute call has appended a block after an earlier call
\* had recorded an instruction in block 0
C13_Witness ==
    /\ calls = 2
    /\ IsJump(call) /\ result = "Ok"
    /\ Len(blocks) = 2
    /\ blocks[1].start \in DOMAIN blocks[1].block
    /\ blocks[2].start # blocks[1].start

\* C14: every block satisfies end >= start, and no execute call decreases
\* the end of a block that existed before the call.
C14_EndNotBelowStart ==
    [][ /\ \A i \in 1..Len(blocks) : blocks[i].end >= blocks[i].start
        /\ \A i \in 1..Len(blocks') : blocks'[i].end >= blocks'[i].start
        /\ \A i \in 1..Len(blocks) : blocks'[i].end >= blocks[i].end ]_vars

\* reached: the current block holds the instruction at its start and a later
\* call with a program_counter below that start has returned
C14_Witness ==
    /\ result = "Ok"
    /\ call.instruction.type # "None"
    /\ call.program_counter < blocks[current_block + 1].start
    /\ IsPlain(call)
    /\ blocks[current_block + 1].start \in DOMAIN blocks[current_block + 1].block
    /\ blocks[current_block + 1].end >= blocks[current_block + 1].start

\* C15: new(entry_address) yields a graph with exactly one block, whose
\* start and end both equal entry_address, with no instructions and no
\* edges, and with current_block = 0.
C15_NewGraph ==
    calls = 0 =>
        /\ current_block = 0
        /\ blocks = <<[start |-> entry, end |-> entry, block |-> <<>>, edges |-> <<>>]>>

\* reached: a graph just created at an entry address other than 0
C15_Witness ==
    /\ calls = 0 /\ result = "New"
    /\ entry = MaxAddr
    /\ Len(blocks) = 1

\* C16: no sequence of execute calls returns MissingBlock or
\* MissingCurrentBlock; ExpectedFailureAddress is the only error.
C16_OnlyExpectedFailureAddress ==
    result \in {"New", "Ok", "ExpectedFailureAddress"}

\* reached: a jump has created a block and linked block 0 to it, the last
\* index of the collection, and a not-taken conditional jump without failure
\* address has then returned the error
C16_Witness ==
    /\ calls = 2
    /\ IsKind(call, "ConditionalNotTaken")
    /\ call.instruction.failure_address = None
    /\ result = "ExpectedFailureAddress"
    /\ Len(blocks) = 2
    /\ \E k \in DOMAIN blocks[1].edges : blocks[1].edges[k] = 1

\* the addresses a jump resolves to blocks: a conditional jump without a
\* failure address returns before any address is looked up
Resolved(c) ==
    IF IsConditional(c)
    THEN IF c.instruction.failure_address = None THEN {}
         ELSE {c.instruction.success_address, c.instruction.failure_address[1]}
    ELSE {c.instruction.success_address}

\* C17: a successful conditional jump with success_address = failure_address
\* creates at most one block, moves the cursor to the block at that address,
\* and leaves the block that was current with a single entry for that target,
\* counted for both installs: one traversed, one not.
C17_EqualAddressesSingleEntry ==
    [][ ( /\ IsConditional(call') /\ result' = "Ok"
          /\ call'.instruction.failure_address = Some(call'.instruction.success_address) ) =>
          /\ Len(blocks') <= Len(blocks) + 1
          /\ blocks'[current_block' + 1].start = call'.instruction.success_address
          /\ EdgeCount(blocks'[current_block + 1].edges, current_block') =
                EdgeCount(blocks[current_block + 1].edges, current_block') + 1 ]_vars

\* C18: every edge entry of every block refers to a block index smaller than
\* the current number of blocks.
C18_NoDanglingEdges ==
    \A i \in 1..Len(blocks) :
        \A k \in DOMAIN blocks[i].edges :
            blocks[i].edges[k] \in 0..(Len(blocks) - 1)

\* reached: the newest block has an edge to itself, its target being the
\* highest index of the collection
C18_Witness ==
    /\ Len(blocks) >= 2
    /\ \E k \in DOMAIN blocks[Len(blocks)].edges :
          blocks[Len(blocks)].edges[k] = Len(blocks) - 1

\* C19: execute of a Jump, successful or failing, changes the edges and the
\* instruction table of no block other than the one that was current; every
\* block it appends has start = end = a resolved jump address, an empty
\* instruction table and no edges.
C19_JumpFrame ==
    [][ IsJump(call') =>
          /\ \A i \in 1..Len(blocks) :
                i # current_block + 1 =>
                   /\ blocks'[i].edges = blocks[i].edges
                   /\ blocks'[i].block = blocks[i].block
          /\ \A i \in (Len(blocks) + 1)..Len(blocks') :
                /\ blocks'[i].start \in Resolved(call')
                /\ blocks'[i].end = blocks'[i].start
                /\ blocks'[i].block = <<>>
                /\ blocks'[i].edges = <<>> ]_vars

\* reached: a taken conditional jump recorded in block 0 has appended the
\* block at its success address and linked block 0 to itself and to it
C19_Witness ==
    /\ IsKind(call, "ConditionalTaken") /\ result = "Ok"
    /\ Len(blocks) = 2
    /\ current_block = 1
    /\ blocks[2].edges = <<>>
    /\ blocks[1].edges = <<0, 1>>
    /\ call.program_counter \in DOMAIN blocks[1].block

\* C20: every block has end = start and its instruction table holds no
\* address other than its start.
C20_OnlyStartRecorded ==
    \A i \in 1..Len(blocks) :
        /\ blocks[i].end = blocks[i].start
        /\ DOMAIN blocks[i].block \subseteq {blocks[i].start}

\* reached: a Plain instruction above the current block's start has been
\* executed with Ok in a block that holds the instruction at its start
C20_Witness ==
    /\ IsPlain(call) /\ result = "Ok"
    /\ call.program_counter > blocks[current_block + 1].start
    /\ DOMAIN blocks[current_block + 1].block = {blocks[current_block + 1].start}
====
